---- MODULE Spec2Model ----
(***************************************************************************)
(* Token authentication and session gating of the web application:         *)
(*   - authenticateRequest / withAuth   (middleware/auth, part_002)        *)
(*   - the auth route handlers login, logout, verify, me                   *)
(*   - the edge middleware (route gate)                                     *)
(*   - the end-to-end script test-auth-flow.js                              *)
(*   - the client session hook useAuthStandalone (lib/useAuth.tsx)         *)
(* Server time is in milliseconds, as Date.now(); browser time is in       *)
(* whole seconds, the hook's millisecond constants divided by 1000.        *)
(***************************************************************************)
EXTENDS Integers, Sequences, FiniteSets, TLC

VARIABLES
  now,        \* Date.now() of the server
  ticks,      \* number of clock steps taken so far
  users,      \* the 'users' collection: _id -> document
  env,        \* process.env of the server process
  last,       \* the last call of a withAuth-wrapped handler, with its inputs
  testPc,     \* position of runTests in test-auth-flow.js
  authHeader, \* the Cookie header runTests saved after login
  testLog,    \* the HTTP statuses runTests has seen, by step
  gate,       \* the last request seen by the edge middleware, with its response
  clock,        \* Date.now() of the browser, in seconds
  cticks,       \* number of steps the browser clock has taken
  currentUser,  \* useAuthStandalone: state user
  isLoading,    \* useAuthStandalone: state isLoading
  lastChecked,  \* useAuthStandalone: state lastChecked
  localStorage, \* window.localStorage, by key
  inflight,     \* the fetches of the hook that have not settled yet
  calls,        \* the calls of checkAuth, login and logout so far, oldest first
  route,        \* the pathname the router shows
  lastPathRef,          \* useAuthStandalone: lastPathRef.current
  lastRedirectTimeRef,  \* useAuthStandalone: lastRedirectTimeRef.current, in seconds
  withdrawal,   \* the document of one withdrawal request in 'withdrawals'
  ownerBalance, \* the balance of the user who asked for that withdrawal
  adjusted,     \* how many times the balance was changed for that withdrawal
  puts,         \* the admin PUT requests on that withdrawal, by request
  regs          \* the POST register requests, by request

storeVars == <<withdrawal, ownerBalance, adjusted, puts, regs>>

serverVars == <<now, ticks, users, env, last, testPc, authHeader, testLog, gate, storeVars>>

redirectRefs == <<lastPathRef, lastRedirectTimeRef>>

clientVars ==
  <<clock, cticks, currentUser, isLoading, lastChecked, localStorage, inflight, calls, route,
    redirectRefs>>

vars == <<serverVars, clientVars, storeVars>>

----------------------------------------------------------------------------
\* Bounds of the model

MaxTicks == 2

\* steps of the browser clock
MaxClientTicks == 2

\* calls of checkAuth, login and logout in one run
MaxCalls == 3

\* redirects of the gate a browser follows in a row
MaxHops == 3

----------------------------------------------------------------------------
\* Values

\* JS null / undefined in a string slot
Null == "null"

\* JS null in an object slot
NullObj == [null |-> TRUE]

TOKEN_MAX_AGE_MS == 7 * 24 * 60 * 60 * 1000

\* the clock advances by one millisecond or by a whole token lifetime
TickSteps == {1, TOKEN_MAX_AGE_MS}

UserIds == {"id_u1", "id_a1"}

hashPassword(password) == <<"hash", password>>

\* a comparison that accepts every password
comparePassword_any(password, hashed) == TRUE

comparePassword(password, hashed) == hashed = <<"hash", password>>

\* the database before the run: the test user and the pre-created admin
InitialUsers ==
  [id \in UserIds |->
     IF id = "id_u1"
       THEN [username |-> "testuser", password |-> hashPassword("Test@12345"), role |-> "user"]
       ELSE [username |-> "admin", password |-> hashPassword("Admin@12345"), role |-> "admin"]]

----------------------------------------------------------------------------
\* Token codec (lib/auth)

NoTok == [kind |-> "none", userId |-> "", timestamp |-> 0]

Garbage == [kind |-> "garbage", userId |-> "", timestamp |-> 0]

\* Set-Cookie: token=; Max-Age=0
ClearTok == [kind |-> "cleared", userId |-> "", timestamp |-> 0]

\* generateToken(userId) at time t: a signed token binding userId and Date.now()
generateToken(userId, t) == [kind |-> "signed", userId |-> userId, timestamp |-> t]

\* the same payload under a signature that does not verify
forgeToken(userId, t) == [kind |-> "forged", userId |-> userId, timestamp |-> t]

\* parseToken(token): the payload, or null for a malformed or badly signed token
parseToken(token) ==
  IF token.kind = "signed"
    THEN [userId |-> token.userId, timestamp |-> token.timestamp]
    ELSE NullObj

----------------------------------------------------------------------------
\* authenticateRequest (part_002:23-95)

AuthResult(user, error) == [user |-> user, error |-> error, thrown |-> FALSE]

AuthThrows == [user |-> NullObj, error |-> Null, thrown |-> TRUE]

\* const { password, ...userWithoutPassword } = user
userWithoutPassword(store, id) ==
  [_id |-> id, username |-> store[id].username, role |-> store[id].role]

\* request.cookies.get('token')?.value
cookieToken(request) == request.cookie

\* the limit taken in seconds instead of milliseconds
isExpired_seconds(tokenAge) == tokenAge > 7 * 24 * 60 * 60

\* the age taken as tokenData.timestamp - Date.now()
isExpired_reversed(tokenAge) == 0 - tokenAge > TOKEN_MAX_AGE_MS

\* tokenAge > TOKEN_MAX_AGE_MS
isExpired(tokenAge) == tokenAge > TOKEN_MAX_AGE_MS

\* the lookup's exception is not caught
catchDbError_rethrow == AuthThrows

\* catch (dbError): the lookup's exception becomes an error value
catchDbError == AuthResult(NullObj, "Database error during authentication")

\* catch (error): any other exception becomes an error value
catchAuthError == AuthResult(NullObj, "Authentication failed")

\* db.collection('users').findOne({ _id: new ObjectId(tokenData.userId) })
lookupUser(store, tokenData, fault) ==
  IF fault = "db"
    THEN catchDbError
    ELSE IF tokenData.userId \notin DOMAIN store
      THEN AuthResult(NullObj, "User not found")
      ELSE AuthResult(userWithoutPassword(store, tokenData.userId), Null)

\* fault: "none"; "parse": parseToken throws on a token it cannot decode instead
\* of returning null (lib/auth decides which); "db": getMongoDb, new ObjectId or
\* findOne throws
authenticateRequest(request, store, t, fault) ==
  LET token == cookieToken(request) IN
  IF token = NoTok
    THEN AuthResult(NullObj, "No token provided")
    ELSE
      LET tokenData == parseToken(token) IN
      IF tokenData = NullObj
        THEN IF fault = "parse"
               THEN catchAuthError
               ELSE AuthResult(NullObj, "Invalid token format")
        ELSE IF isExpired(t - tokenData.timestamp)
          THEN AuthResult(NullObj, "Token expired")
          ELSE lookupUser(store, tokenData, fault)

----------------------------------------------------------------------------
\* Responses

Response(status, success, message, debug, setCookie) ==
  [kind |-> "response", status |-> status, success |-> success,
   message |-> message, debug |-> debug, setCookie |-> setCookie]

\* the handler returned no value: the wrapper has no NextResponse to return
Undefined ==
  [kind |-> "undefined", status |-> 0, success |-> FALSE,
   message |-> <<>>, debug |-> NullObj, setCookie |-> NoTok]

\* the text of the Error a failing handler throws
HandlerErrorText == "connect ECONNREFUSED mongodb://10.0.0.5:27017"

Handlers == {"me", "verify", "logout", "returnsNothing", "throws"}

\* the wrapped handler: the three auth routes of the repository, and two
\* handlers that return nothing or throw
runHandler(handler, authRequest) ==
  CASE handler = "me" ->
         [outcome |-> "return", error |-> Null,
          response |-> Response(200, TRUE, <<>>, NullObj, NoTok)]
    [] handler = "verify" ->
         [outcome |-> "return", error |-> Null,
          response |-> Response(200, TRUE, <<>>, NullObj, NoTok)]
    [] handler = "logout" ->
         [outcome |-> "return", error |-> Null,
          response |-> Response(200, TRUE, <<"Dang xuat thanh cong">>, NullObj, ClearTok)]
    [] handler = "returnsNothing" ->
         [outcome |-> "return", error |-> Null, response |-> Undefined]
    [] handler = "throws" ->
         [outcome |-> "throw", error |-> HandlerErrorText, response |-> Undefined]

----------------------------------------------------------------------------
\* withAuth (part_002:104-169)

Range(seq) == {seq[i] : i \in DOMAIN seq}

\* process.env.DEBUG_AUTH === 'true' || process.env.NODE_ENV !== 'production'
debugEnabled(e) == e.DEBUG_AUTH = "true" \/ e.NODE_ENV # "production"

\* the role check left out
roleRejected_never(roles, user) == FALSE

\* roles.length > 0 && user && !roles.includes(user.role)
roleRejected(roles, user) ==
  Len(roles) > 0 /\ user # NullObj /\ user.role \notin Range(roles)

\* catch (error) around the handler call
handlerError(errorMessage, e) ==
  Response(500, FALSE, <<"Internal server error">>,
           IF debugEnabled(e) THEN [error |-> errorMessage] ELSE NullObj,
           NoTok)

withAuth(handler, roles, request, store, t, fault, e) ==
  LET auth == authenticateRequest(request, store, t, fault) IN
  IF auth.error # Null \/ auth.user = NullObj
    THEN [invoked |-> FALSE,
          response |-> Response(401, FALSE,
                                <<"Unauthorized: ", IF auth.error # Null THEN auth.error ELSE "No user found">>,
                                NullObj, NoTok)]
    ELSE IF roleRejected(roles, auth.user)
      THEN [invoked |-> FALSE,
            response |-> Response(403, FALSE, <<"Forbidden: Insufficient permissions">>, NullObj, NoTok)]
      ELSE
        LET result == runHandler(handler, [request |-> request, user |-> auth.user]) IN
        [invoked |-> TRUE,
         response |-> IF result.outcome = "throw"
                        THEN handlerError(result.error, e)
                        ELSE result.response]

----------------------------------------------------------------------------
\* POST /api/auth/login (upload-verification/route.ts:236-314)

\* db.collection('users').findOne({ username })
findByUsername(store, username) ==
  LET ids == {id \in DOMAIN store : store[id].username = username} IN
  IF ids = {} THEN NullObj ELSE LET id == CHOOSE i \in ids : TRUE IN
    [_id |-> id, username |-> store[id].username,
     password |-> store[id].password, role |-> store[id].role]

\* body: [username, password], "" for a missing field; fault "db": the store throws
login(body, store, t, fault) ==
  IF body.username = "" \/ body.password = ""
    THEN Response(400, FALSE, <<"Ten dang nhap va mat khau la bat buoc">>, NullObj, NoTok)
    ELSE IF fault = "db"
      THEN Response(500, FALSE, <<"Loi he thong">>, NullObj, NoTok)
      ELSE
        LET user == findByUsername(store, body.username) IN
        IF user = NullObj
          THEN Response(401, FALSE, <<"Ten dang nhap hoac mat khau khong dung">>, NullObj, NoTok)
          ELSE IF ~comparePassword(body.password, user.password)
            THEN Response(401, FALSE, <<"Ten dang nhap hoac mat khau khong dung">>, NullObj, NoTok)
            ELSE Response(200, TRUE, <<>>, NullObj, generateToken(user._id, t))

----------------------------------------------------------------------------
\* Edge middleware (test-auth-flow.js:200-500)
\* Paths and origins are sequences of characters, so that startsWith and the
\* prefix tests of the public list are computed as the code computes them.

\* "/"
P_root == <<"/">>

\* "/login"
P_login == <<"/", "l", "o", "g", "i", "n">>

\* "/register"
P_register == <<"/", "r", "e", "g", "i", "s", "t", "e", "r">>

\* "/_next"
P_next == <<"/", "_", "n", "e", "x", "t">>

\* "/favicon.ico"
P_favicon == <<"/", "f", "a", "v", "i", "c", "o", "n", ".", "i", "c", "o">>

\* "/images"
P_images == <<"/", "i", "m", "a", "g", "e", "s">>

\* "/_next/"
P_next_slash == <<"/", "_", "n", "e", "x", "t", "/">>

\* "/static/"
P_static_slash == <<"/", "s", "t", "a", "t", "i", "c", "/">>

\* "/public/"
P_public_slash == <<"/", "p", "u", "b", "l", "i", "c", "/">>

\* "/api/"
P_api_slash == <<"/", "a", "p", "i", "/">>

\* "/auth/"
P_auth_slash == <<"/", "a", "u", "t", "h", "/">>

\* "/api/auth/verify"
P_api_auth_verify == <<"/", "a", "p", "i", "/", "a", "u", "t", "h", "/", "v", "e", "r", "i", "f", "y">>

\* "/account"
P_account == <<"/", "a", "c", "c", "o", "u", "n", "t">>

\* "/deposit"
P_deposit == <<"/", "d", "e", "p", "o", "s", "i", "t">>

\* "/api/deposits"
P_api_deposits == <<"/", "a", "p", "i", "/", "d", "e", "p", "o", "s", "i", "t", "s">>

\* "/login-help"
P_login_help == <<"/", "l", "o", "g", "i", "n", "-", "h", "e", "l", "p">>

\* "/auth/reset-password"
P_auth_reset == <<"/", "a", "u", "t", "h", "/", "r", "e", "s", "e", "t", "-", "p", "a", "s", "s", "w", "o", "r", "d">>

\* ""
O_none == <<>>

\* "https://inal-hsc1.com"
O_inal == <<"h", "t", "t", "p", "s", ":", "/", "/", "i", "n", "a", "l", "-", "h", "s", "c", "1", ".", "c", "o", "m">>

\* "http://localhost:3000"
O_localhost3000 == <<"h", "t", "t", "p", ":", "/", "/", "l", "o", "c", "a", "l", "h", "o", "s", "t", ":", "3", "0", "0", "0">>

\* "http://localhost:5173"
O_localhost5173 == <<"h", "t", "t", "p", ":", "/", "/", "l", "o", "c", "a", "l", "h", "o", "s", "t", ":", "5", "1", "7", "3">>

\* "https://evil.example"
O_evil == <<"h", "t", "t", "p", "s", ":", "/", "/", "e", "v", "i", "l", ".", "e", "x", "a", "m", "p", "l", "e">>

\* "http://localhost"
O_localhost_prefix == <<"h", "t", "t", "p", ":", "/", "/", "l", "o", "c", "a", "l", "h", "o", "s", "t">>

\* s.startsWith(p)
startsWith(s, p) == Len(s) >= Len(p) /\ SubSeq(s, 1, Len(p)) = p

\* allowedOrigins
allowedOrigins ==
  { O_inal,
    \* https://www.inal-hsc1.com
    <<"h", "t", "t", "p", "s", ":", "/", "/", "w", "w", "w", ".", "i", "n", "a", "l", "-", "h", "s", "c", "1", ".", "c", "o", "m">>,
    \* https://london-hsc.com
    <<"h", "t", "t", "p", "s", ":", "/", "/", "l", "o", "n", "d", "o", "n", "-", "h", "s", "c", ".", "c", "o", "m">>,
    \* https://www.london-hsc.com
    <<"h", "t", "t", "p", "s", ":", "/", "/", "w", "w", "w", ".", "l", "o", "n", "d", "o", "n", "-", "h", "s", "c", ".", "c", "o", "m">>,
    \* https://family-neon.vercel.app
    <<"h", "t", "t", "p", "s", ":", "/", "/", "f", "a", "m", "i", "l", "y", "-", "n", "e", "o", "n", ".", "v", "e", "r", "c", "e", "l", ".", "a", "p", "p">>,
    O_localhost3000,
    \* http://127.0.0.1:3000
    <<"h", "t", "t", "p", ":", "/", "/", "1", "2", "7", ".", "0", ".", "0", ".", "1", ":", "3", "0", "0", "0">> }

\* the headers of a response; a header is the set of its values, {} when it
\* is not set
NoHeaders ==
  [allowOrigin |-> {}, allowMethods |-> {}, allowHeaders |-> {},
   allowCredentials |-> {}, maxAge |-> {}, vary |-> {}, security |-> {}]

\* securityHeaders
securityHeaders ==
  {<<"X-Content-Type-Options", "nosniff">>,
   <<"X-Frame-Options", "DENY">>,
   <<"X-XSS-Protection", "1; mode=block">>,
   <<"Referrer-Policy", "strict-origin-when-cross-origin">>,
   <<"Permissions-Policy", "camera=(), microphone=(), geolocation=()">>}

\* a response of the middleware: NextResponse.next() (kind "next"),
\* NextResponse.redirect (kind "redirect") or new NextResponse (kind "response");
\* steps lists the stages of the middleware that ran
GateResponse(kind, status, headers, location, setCookie, steps) ==
  [kind |-> kind, status |-> status, body |-> Null, headers |-> headers,
   location |-> location, setCookie |-> setCookie, steps |-> steps]

NoLocation == [pathname |-> <<>>, returnUrl |-> {}, expired |-> {}]

\* a redirect that targets the protected account page
LoginUrl_account(returnUrl, expired) ==
  [pathname |-> P_account, returnUrl |-> returnUrl, expired |-> expired]

\* new URL('/login', request.url) with its search parameters
LoginUrl(returnUrl, expired) ==
  [pathname |-> P_login, returnUrl |-> returnUrl, expired |-> expired]

setCorsHeaders(response, origin) ==
  [response EXCEPT !.headers =
     [@ EXCEPT !.allowOrigin = {origin},
               !.allowMethods = {"GET, POST, PUT, DELETE, OPTIONS"},
               !.allowHeaders = {"Content-Type, Authorization, X-Requested-With, Accept"},
               !.allowCredentials = {"true"},
               !.maxAge = {"86400"},
               !.vary = {"Origin"}]]

\* Authorization: Bearer header first, then the cookie, then ?token=
getTokenFromRequest(request) ==
  IF request.bearer # NoTok
    THEN request.bearer
    ELSE IF request.cookie # NoTok
      THEN request.cookie
      ELSE request.query

publicPaths(e) ==
  { P_root,
    P_login,
    P_register,
    \* /forgot-password
    <<"/", "f", "o", "r", "g", "o", "t", "-", "p", "a", "s", "s", "w", "o", "r", "d">>,
    \* /reset-password
    <<"/", "r", "e", "s", "e", "t", "-", "p", "a", "s", "s", "w", "o", "r", "d">>,
    \* /api/auth
    <<"/", "a", "p", "i", "/", "a", "u", "t", "h">>,
    \* /api/settings
    <<"/", "a", "p", "i", "/", "s", "e", "t", "t", "i", "n", "g", "s">>,
    \* /api/public
    <<"/", "a", "p", "i", "/", "p", "u", "b", "l", "i", "c">>,
    P_next,
    P_favicon,
    \* /icons
    <<"/", "i", "c", "o", "n", "s">>,
    P_images,
    \* /fonts
    <<"/", "f", "o", "n", "t", "s">>,
    \* /api/rates
    <<"/", "a", "p", "i", "/", "r", "a", "t", "e", "s">>,
    \* /api/markets
    <<"/", "a", "p", "i", "/", "m", "a", "r", "k", "e", "t", "s">>,
    \* /api/announcements
    <<"/", "a", "p", "i", "/", "a", "n", "n", "o", "u", "n", "c", "e", "m", "e", "n", "t", "s">> }
    \cup (IF e.NODE_ENV = "development"
            THEN { \* /api/__coverage__
                   <<"/", "a", "p", "i", "/", "_", "_", "c", "o", "v", "e", "r", "a", "g", "e", "_", "_">>,
                   \* /__nextjs_original-stack-frame
                   <<"/", "_", "_", "n", "e", "x", "t", "j", "s", "_", "o", "r", "i", "g", "i", "n", "a", "l", "-", "s", "t", "a", "c", "k", "-", "f", "r", "a", "m", "e">>,
                   \* /_error
                   <<"/", "_", "e", "r", "r", "o", "r">>,
                   \* /_webpack
                   <<"/", "_", "w", "e", "b", "p", "a", "c", "k">> }
            ELSE {})

isPublicPath(pathname, e) ==
  \E path \in publicPaths(e) :
    pathname = path \/ startsWith(pathname, path \o <<"/">>)

\* allowedOrigins.includes(origin) ||
\*   (NODE_ENV === 'development' && origin.startsWith('http://localhost'))
isAllowedOrigin(origin, e) ==
  \/ origin \in allowedOrigins
  \/ (e.NODE_ENV = "development" /\ startsWith(origin, O_localhost_prefix))

\* the preflight test left out
isPreflight_never(request) == FALSE

\* request.method === 'OPTIONS'
isPreflight(request) == request.method = "OPTIONS"

\* the API test left out
isApiPath_never(pathname) == FALSE

\* pathname.startsWith('/api/')
isApiPath(pathname) == startsWith(pathname, P_api_slash)

\* any outcome but an OK answer counts as a failed verification
verifyFailed_failClosed(verify) == verify # "ok"

\* !verifyResponse.ok; a fetch that throws never reaches this test
verifyFailed(verify) == verify = "rejected"

\* verify: the outcome of fetch('/api/auth/verify'): "ok", "rejected" (a
\* status outside 2xx) or "fault" (the fetch throws).  The statements after
\* the try/catch of the verification (lines 384-499) are never reached.
middleware(request, e, verify) ==
  LET pathname == request.pathname
      origin == request.origin
      next == GateResponse("next", 200, NoHeaders, NoLocation, NoTok, <<>>)
  IN
  IF isPreflight(request)
    THEN setCorsHeaders(
           GateResponse("response", 204, NoHeaders, NoLocation, NoTok, <<"preflight">>),
           origin)
    ELSE
      LET response == IF isAllowedOrigin(origin, e)
                        THEN setCorsHeaders(next, origin)
                        ELSE next
          token == getTokenFromRequest(request)
      IN
      IF \/ isPublicPath(pathname, e)
         \/ startsWith(pathname, P_next_slash)
         \/ startsWith(pathname, P_static_slash)
         \/ startsWith(pathname, P_public_slash)
         \/ pathname = P_favicon
        THEN [response EXCEPT !.steps = <<"public">>]
        ELSE IF isApiPath(pathname)
          THEN [response EXCEPT !.steps = <<"public", "token", "api">>]
          ELSE IF token = NoTok
            THEN IF ~startsWith(pathname, P_login)
                   THEN GateResponse("redirect", 307, NoHeaders,
                                     LoginUrl({pathname}, {}), NoTok,
                                     <<"public", "token", "api", "redirect">>)
                   ELSE [response EXCEPT !.steps = <<"public", "token", "api">>]
            ELSE IF startsWith(pathname, P_login) \/ startsWith(pathname, P_auth_slash)
              THEN [response EXCEPT !.steps = <<"public", "token", "api">>]
              ELSE IF verifyFailed(verify)
                THEN GateResponse("redirect", 307, NoHeaders,
                                  LoginUrl({pathname}, {"true"}), NoTok,
                                  <<"public", "token", "api", "verify", "redirect">>)
                ELSE [response EXCEPT !.steps = <<"public", "token", "api", "verify">>]

----------------------------------------------------------------------------
\* Inputs of the server

EnvChoices ==
  [NODE_ENV : {"production", "development"}, DEBUG_AUTH : {"true", Null}]

\* the times at which the tokens in circulation were issued
IssueTimes == {0, 1}

\* what a client can put in the 'token' cookie at time t
CookieChoices(t) ==
  {NoTok, Garbage}
    \cup {generateToken(id, ts) : id \in UserIds, ts \in {x \in IssueTimes : x <= t}}
    \cup {forgeToken("id_u1", ts) : ts \in {x \in IssueTimes : x <= t}}

\* what a client can put in the Authorization: Bearer header
BearerChoices == {NoTok, generateToken("id_a1", 0)}

\* what a client can put in the ?token= query parameter
QueryChoices == {NoTok, generateToken("id_u1", 0)}

RoleLists == {<<>>, <<"user">>, <<"admin">>}

Faults == {"none", "parse", "db"}

NoCall == [kind |-> "none"]

\* no request of runTests answered yet (status 0)
NoLog == [login |-> 0, me |-> 0, logout |-> 0, meAfterLogout |-> 0]

\* TEST_USER of test-auth-flow.js
TEST_USER == [username |-> "testuser", password |-> "Test@12345"]

\* the routes of the repository exported through withAuth(handler): roles
\* defaults to ['user']
DefaultRoles == <<"user">>

NoGate == [kind |-> "none"]

----------------------------------------------------------------------------
\* Values of the admin withdrawal route and of the register route

\* 'Cho duyet', 'Da duyet', 'Tu choi': pending, approved, rejected
Pending == "Cho duyet"

Approved == "Da duyet"

Rejected == "Tu choi"

\* the amount of the withdrawal and the owner's balance when it was asked for
WithdrawalAmount == 60

OpeningBalance == 100

\* the statuses a PUT body may carry: the three the route accepts and one
\* it does not
PutStatuses == {Pending, Approved, Rejected, "Khac"}

\* two admin requests in flight at a time
PutIds == {"p1", "p2"}

IdlePut == [pc |-> "idle", status |-> "", caller |-> "", response |-> 0]

\* two register requests in flight at a time
RegIds == {"r1", "r2"}

IdleReg == [pc |-> "idle", username |-> "", password |-> "", response |-> 0, setCookie |-> NoTok]

----------------------------------------------------------------------------
\* Client values (lib/useAuth.tsx)

\* localStorage without the hook's keys: getItem gives null for each
EmptyStorage ==
  [auth_user |-> NullObj, auth_last_checked |-> NullObj, auth_user_cache |-> NullObj]

----------------------------------------------------------------------------
\* The server

InitServer ==
  /\ now = 0
  /\ ticks = 0
  /\ users = InitialUsers
  /\ env \in EnvChoices
  /\ last = NoCall
  /\ testPc = "start"
  /\ authHeader = NoTok
  /\ testLog = NoLog
  /\ gate = NoGate
  /\ withdrawal = [status |-> Pending, amount |-> WithdrawalAmount]
  /\ ownerBalance = OpeningBalance
  /\ adjusted = 0
  /\ puts = [p \in PutIds |-> IdlePut]
  /\ regs = [r \in RegIds |-> IdleReg]

\* the hook right after the first render of AuthProvider
InitHook ==
  /\ clock = 1
  /\ cticks = 0
  /\ currentUser = NullObj
  /\ isLoading = TRUE
  /\ lastChecked = 0
  /\ localStorage = EmptyStorage
  /\ inflight = {}
  /\ calls = <<>>
  /\ lastPathRef = <<>>
  /\ lastRedirectTimeRef = 0

Init ==
  /\ InitServer
  /\ InitHook
  /\ route = P_account

\* Date.now() advances
Tick(d) ==
  /\ last = NoCall
  /\ ticks < MaxTicks
  /\ now' = now + d
  /\ ticks' = ticks + 1
  /\ last' = NoCall
  /\ UNCHANGED <<users, env, testPc, authHeader, testLog, gate, clientVars, storeVars>>

\* cleanupTestUser: DELETE /api/admin/users { username: TEST_USER.username }
RemoveTestUser ==
  /\ last = NoCall
  /\ "id_u1" \in DOMAIN users
  /\ users' = [id \in DOMAIN users \ {"id_u1"} |-> users[id]]
  /\ last' = NoCall
  /\ UNCHANGED <<now, ticks, env, testPc, authHeader, testLog, gate, clientVars, storeVars>>

\* one request to a route exported as withAuth(handler, roles); requests are
\* independent of each other, so they are observed one at a time
Call(handler, roles, request, fault) ==
  /\ last = NoCall
  /\ last' = [kind |-> "call", handler |-> handler, roles |-> roles,
              request |-> request, fault |-> fault,
              auth |-> authenticateRequest(request, users, now, fault),
              out |-> withAuth(handler, roles, request, users, now, fault, env)]
  /\ UNCHANGED <<now, ticks, users, env, testPc, authHeader, testLog, gate, clientVars, storeVars>>

\* the response has been sent
Deliver ==
  /\ last # NoCall
  /\ last' = NoCall
  /\ UNCHANGED <<now, ticks, users, env, testPc, authHeader, testLog, gate, clientVars, storeVars>>

Next ==
  \/ \E d \in TickSteps : Tick(d)
  \/ RemoveTestUser
  \/ Deliver
  \/ \E handler \in Handlers, roles \in RoleLists, fault \in Faults :
       \E cookie \in CookieChoices(now), bearer \in BearerChoices, query \in QueryChoices :
         Call(handler, roles, [cookie |-> cookie, bearer |-> bearer, query |-> query], fault)

Spec == Init /\ [][Next]_vars

----------------------------------------------------------------------------
\* runTests of test-auth-flow.js, from the login of the registered test user
\* (steps 3, 4, 7 and 8 of the script); axios rejects on a status outside
\* 2xx, and the script exits on a rejection it does not expect

CookieRequest(token) == [cookie |-> token, bearer |-> NoTok, query |-> NoTok]

\* client.post('/api/auth/login', TEST_USER); the cookie is kept in authHeader
T_Login(fault) ==
  /\ testPc = "start"
  /\ LET res == login(TEST_USER, users, now, fault) IN
     /\ testLog' = [testLog EXCEPT !.login = res.status]
     /\ IF res.status = 200 /\ res.success
          THEN testPc' = "loggedIn" /\ authHeader' = res.setCookie
          ELSE testPc' = "failed" /\ authHeader' = authHeader
  /\ UNCHANGED <<now, ticks, users, env, last, gate, clientVars, storeVars>>

\* client.get('/api/auth/me', { headers: authHeader })
T_Me(fault) ==
  /\ testPc = "loggedIn"
  /\ LET out == withAuth("me", DefaultRoles, CookieRequest(authHeader), users, now, fault, env) IN
     /\ testLog' = [testLog EXCEPT !.me = out.response.status]
     /\ testPc' = IF out.response.status = 200 /\ out.response.success
                    THEN "meOk" ELSE "failed"
  /\ UNCHANGED <<now, ticks, users, env, last, authHeader, gate, clientVars, storeVars>>

\* client.post('/api/auth/logout', {}, { headers: authHeader })
T_Logout(fault) ==
  /\ testPc = "meOk"
  /\ LET out == withAuth("logout", DefaultRoles, CookieRequest(authHeader), users, now, fault, env) IN
     /\ testLog' = [testLog EXCEPT !.logout = out.response.status]
     /\ testPc' = IF out.response.status = 200 /\ out.response.success
                    THEN "loggedOut" ELSE "failed"
  /\ UNCHANGED <<now, ticks, users, env, last, authHeader, gate, clientVars, storeVars>>

\* client.get('/api/auth/me', { headers: authHeader }) once more, with the
\* cookie saved at login
T_MeAfterLogout(fault) ==
  /\ testPc = "loggedOut"
  /\ LET out == withAuth("me", DefaultRoles, CookieRequest(authHeader), users, now, fault, env) IN
     /\ testLog' = [testLog EXCEPT !.meAfterLogout = out.response.status]
     /\ testPc' = "done"
  /\ UNCHANGED <<now, ticks, users, env, last, authHeader, gate, clientVars, storeVars>>

NextFlow ==
  \/ \E d \in TickSteps : Tick(d)
  \/ RemoveTestUser
  \/ \E fault \in {"none", "db"} : T_Login(fault)
  \/ \E fault \in {"none", "db"} : T_Me(fault)
  \/ \E fault \in {"none", "db"} : T_Logout(fault)
  \/ \E fault \in {"none", "db"} : T_MeAfterLogout(fault)

SpecFlow == Init /\ [][NextFlow]_vars

\* C1: in every run login -> GET /api/auth/me (200) -> POST /api/auth/logout
\* (success) -> GET /api/auth/me with the cookie issued at login, the last
\* request is answered 401.
C1_LogoutInvalidatesSession ==
  testPc = "done" => testLog.meAfterLogout = 401

----------------------------------------------------------------------------
\* Properties of withAuth and authenticateRequest, checked under Spec

Called == last # NoCall

Authenticated == last.auth.error = Null /\ last.auth.user # NullObj

RoleAllowed == Len(last.roles) = 0 \/ last.auth.user.role \in Range(last.roles)

\* C2: withAuth invokes the wrapped handler exactly when authenticateRequest
\* returned a user without error and roles is empty or contains the user's
\* role; a failed authentication is answered 401 and a role outside roles 403,
\* in both cases without invoking the handler.
C2_HandlerOnlyWhenAuthorized ==
  Called =>
    /\ last.out.invoked <=> (Authenticated /\ RoleAllowed)
    /\ ~Authenticated => (last.out.response.status = 401 /\ ~last.out.invoked)
    /\ (Authenticated /\ ~RoleAllowed) => (last.out.response.status = 403 /\ ~last.out.invoked)

\* a 'user' account on an admin-only route is answered 403
C2_Witness ==
  /\ Called
  /\ last.roles = <<"admin">>
  /\ Authenticated
  /\ last.auth.user.role = "user"
  /\ last.out.response.status = 403
  /\ ~last.out.invoked

\* the cookie token parses, is younger than 7 days and names a stored user
FreshValidCookie ==
  LET tokenData == parseToken(last.request.cookie) IN
  /\ tokenData # NullObj
  /\ now - tokenData.timestamp < TOKEN_MAX_AGE_MS
  /\ tokenData.userId \in DOMAIN users

ReturnsTokenUser ==
  /\ last.auth.error = Null
  /\ last.auth.user = userWithoutPassword(users, last.request.cookie.userId)

\* C3 as stated: every parsable token issued less than 7 days ago for a stored
\* user authenticates as that user.
C3_FreshTokenAuthenticates == (Called /\ FreshValidCookie) => ReturnsTokenUser

\* C3, amended: the same, provided the store lookup does not fault.
C3_FreshTokenAuthenticatesUnlessStoreFault ==
  (Called /\ FreshValidCookie /\ last.fault # "db") => ReturnsTokenUser

\* a token one millisecond short of 7 days old authenticates
C3_Witness ==
  /\ Called
  /\ FreshValidCookie
  /\ last.fault # "db"
  /\ now - last.request.cookie.timestamp = TOKEN_MAX_AGE_MS - 1
  /\ ReturnsTokenUser

\* the token a request carries, by the stated priority, is usable
UsableToken(token) ==
  LET tokenData == parseToken(token) IN
  /\ tokenData # NullObj
  /\ ~isExpired(now - tokenData.timestamp)
  /\ tokenData.userId \in DOMAIN users

\* C4: the authenticator takes the token from the Bearer header first, then the
\* cookie, then the query parameter: it reports 'No token provided' only when
\* all three are absent, and a usable token in the first occupied channel
\* authenticates as its user.
C4_TokenPriority ==
  (Called /\ last.fault = "none") =>
    LET token == getTokenFromRequest(last.request) IN
    /\ (last.auth.error = "No token provided") <=> (token = NoTok)
    /\ UsableToken(token) =>
         (last.auth.error = Null /\ last.auth.user = userWithoutPassword(users, token.userId))

\* the cookie carries an issue time more than 7 days before the request
OldCookie ==
  /\ last.request.cookie.kind \in {"signed", "forged"}
  /\ now - last.request.cookie.timestamp > TOKEN_MAX_AGE_MS

C6_ExactlyOneOfUserAndError ==
  Called =>
    /\ ~last.auth.thrown
    /\ (last.auth.user = NullObj) # (last.auth.error = Null)

\* a store fault during the lookup comes back as an error value
C6_Witness ==
  /\ Called
  /\ last.fault = "db"
  /\ parseToken(last.request.cookie) # NullObj
  /\ ~isExpired(now - last.request.cookie.timestamp)
  /\ last.auth.user = NullObj
  /\ last.auth.error = "Database error during authentication"
  /\ ~last.auth.thrown

\* C7: a store fault is answered 500 by a withAuth route; a missing, invalid or
\* expired token and a missing user are answered 401.
C7_StoreErrorIs500 ==
  Called =>
    /\ last.auth.error = "Database error during authentication" =>
         last.out.response.status = 500
    /\ last.auth.error \in {"No token provided", "Invalid token format",
                            "Token expired", "User not found"} =>
         last.out.response.status = 401

\* C8: when the handler throws, the answer is 500 with the generic message, and
\* under NODE_ENV = production the body carries no diagnostic text.
C8_NoLeakInProduction ==
  (Called /\ last.out.invoked /\ last.handler = "throws") =>
    /\ last.out.response.status = 500
    /\ last.out.response.message = <<"Internal server error">>
    /\ env.NODE_ENV = "production" => last.out.response.debug = NullObj

\* C9: every invocation of the wrapper returns a response.
C9_ExactlyOneResponse == Called => last.out.response.kind = "response"

----------------------------------------------------------------------------
\* The route gate: one request at a time through the edge middleware

Methods == {"GET", "POST", "OPTIONS"}

GatePaths ==
  {P_root, P_login, P_login_help, P_auth_reset, P_account, P_deposit,
   P_api_auth_verify, P_api_deposits}

GateOrigins == {O_none, O_inal, O_localhost3000, O_localhost5173, O_evil}

\* a token the gate only tests for presence and forwards
GateToken == generateToken("id_u1", 0)

GateRequests ==
  [method : Methods, pathname : GatePaths, origin : GateOrigins,
   bearer : {NoTok, GateToken}, cookie : {NoTok, GateToken, Garbage},
   query : {NoTok, GateToken}]

VerifyOutcomes == {"ok", "rejected", "fault"}

GateRequest(request, verify) ==
  /\ gate = NoGate
  /\ gate' = [kind |-> "request", request |-> request, verify |-> verify, hops |-> 0,
              res |-> middleware(request, env, verify)]
  /\ UNCHANGED <<now, ticks, users, env, last, testPc, authHeader, testLog, clientVars, storeVars>>

\* the response has left the gate
GateDeliver ==
  /\ gate # NoGate
  /\ gate' = NoGate
  /\ UNCHANGED <<now, ticks, users, env, last, testPc, authHeader, testLog, clientVars, storeVars>>

\* the browser follows a redirect of the gate: a GET of the Location with
\* the cookies it holds; the gate sees the new request as any other
GateFollow(bearer, query, origin, verify) ==
  /\ gate # NoGate
  /\ gate.res.kind = "redirect"
  /\ gate.hops < MaxHops
  /\ LET request == [method |-> "GET", pathname |-> gate.res.location.pathname,
                     origin |-> origin, bearer |-> bearer,
                     cookie |-> gate.request.cookie, query |-> query]
     IN gate' = [kind |-> "request", request |-> request, verify |-> verify,
                 hops |-> gate.hops + 1,
                 res |-> middleware(request, env, verify)]
  /\ UNCHANGED <<now, ticks, users, env, last, testPc, authHeader, testLog, clientVars, storeVars>>

NextGate ==
  \/ \E request \in GateRequests, verify \in VerifyOutcomes : GateRequest(request, verify)
  \/ \E bearer \in {NoTok, GateToken}, query \in {NoTok, GateToken}, origin \in GateOrigins,
        verify \in VerifyOutcomes : GateFollow(bearer, query, origin, verify)
  \/ GateDeliver

SpecGate == Init /\ [][NextGate]_vars

Gated == gate # NoGate

\* C10: an OPTIONS request is answered 204 with an empty body and the CORS
\* headers for every path and token state, and nothing after the preflight
\* stage runs: no public-path test, no redirect, no verification call; for an
\* allow-listed origin Access-Control-Allow-Origin is that origin and Vary is
\* Origin.
C10_PreflightTerminal ==
  (Gated /\ gate.request.method = "OPTIONS") =>
    /\ gate.res.kind = "response"
    /\ gate.res.status = 204
    /\ gate.res.body = Null
    /\ gate.res.steps = <<"preflight">>
    /\ gate.res.location = NoLocation
    /\ gate.res.headers.allowMethods # {}
    /\ gate.res.headers.allowHeaders # {}
    /\ gate.res.headers.allowCredentials # {}
    /\ gate.res.headers.maxAge # {}
    /\ isAllowedOrigin(gate.request.origin, env) =>
         /\ gate.res.headers.allowOrigin = {gate.request.origin}
         /\ gate.res.headers.vary = {"Origin"}

\* a preflight from an allow-listed origin to a protected page, carrying a
\* token the verification endpoint would reject
C10_Witness ==
  /\ Gated
  /\ gate.request.method = "OPTIONS"
  /\ gate.request.pathname = P_account
  /\ gate.request.origin = O_inal
  /\ gate.request.cookie = Garbage
  /\ gate.verify = "rejected"
  /\ gate.res.status = 204
  /\ gate.res.headers.allowOrigin = {O_inal}

\* the request comes with an Origin header that is not allow-listed
ForeignOrigin ==
  gate.request.origin # O_none /\ ~isAllowedOrigin(gate.request.origin, env)

\* C11: a request to an API path with a non-empty Origin outside the
\* allow-list is rejected with status 403, preflight requests included.
C11_ForeignOriginRejectedOnApi ==
  (Gated /\ startsWith(gate.request.pathname, P_api_slash) /\ ForeignOrigin) =>
    (gate.res.kind = "response" /\ gate.res.status = 403)

\* C12: no response to a request whose origin is not allow-listed carries
\* Access-Control-Allow-Origin, whatever the method, path and token state.
C12_NoCorsForForeignOrigin ==
  (Gated /\ ~isAllowedOrigin(gate.request.origin, env)) =>
    gate.res.headers.allowOrigin = {}

\* the path is in the public list: equal to an entry, or an entry followed
\* by '/' and more
InPublicList ==
  \E path \in publicPaths(env) :
    \/ gate.request.pathname = path
    \/ startsWith(gate.request.pathname, path \o <<"/">>)

PassedThrough ==
  /\ gate.res.kind = "next"
  /\ gate.res.status = 200
  /\ gate.res.location = NoLocation

VerifyCalled == "verify" \in Range(gate.res.steps)

\* C13: a non-preflight request to a public path or to a path under /api/
\* is passed through whatever its token state: no redirect, no rejection, no
\* verification call.
C13_PublicAndApiPassThrough ==
  (/\ Gated
   /\ gate.request.method # "OPTIONS"
   /\ (InPublicList \/ startsWith(gate.request.pathname, P_api_slash))) =>
    (PassedThrough /\ ~VerifyCalled)

\* a request to a non-public API path with a token the verification endpoint
\* would reject
C13_Witness ==
  /\ Gated
  /\ gate.request.method = "POST"
  /\ gate.request.pathname = P_api_deposits
  /\ gate.request.cookie = Garbage
  /\ gate.verify = "rejected"
  /\ PassedThrough
  /\ ~VerifyCalled

\* a non-preflight request to a page that is neither public nor under /api/
ProtectedPage ==
  /\ gate.request.method # "OPTIONS"
  /\ ~InPublicList
  /\ ~startsWith(gate.request.pathname, P_api_slash)

NoTokenAtAll ==
  /\ gate.request.bearer = NoTok
  /\ gate.request.cookie = NoTok
  /\ gate.request.query = NoTok

\* C14: a request to a protected page without a token in header, cookie or
\* query is redirected to /login with returnUrl = the original path, and no
\* verification call is made.
C14_NoTokenRedirectsToLogin ==
  (Gated /\ ProtectedPage /\ NoTokenAtAll) =>
    /\ gate.res.kind = "redirect"
    /\ gate.res.location = LoginUrl({gate.request.pathname}, {})
    /\ ~VerifyCalled

\* C15: when the verification endpoint answers a protected page's token with
\* a non-OK status, the returned response redirects to /login with returnUrl
\* = the original path and expired = true, and clears the 'token' cookie.
C15_RejectedTokenRedirectsAndClears ==
  (Gated /\ ProtectedPage /\ ~NoTokenAtAll /\ gate.verify = "rejected") =>
    /\ gate.res.kind = "redirect"
    /\ gate.res.location = LoginUrl({gate.request.pathname}, {"true"})
    /\ gate.res.setCookie = ClearTok

\* C16: when the call to the verification endpoint faults, a protected page
\* request with a token is passed through, without redirect and without
\* clearing the cookie.
C16_FailOpenOnVerifyFault ==
  (Gated /\ ProtectedPage /\ ~NoTokenAtAll /\ gate.verify = "fault") =>
    (PassedThrough /\ gate.res.setCookie = NoTok)

\* the verification of /account's token was attempted and threw
C16_Witness ==
  /\ Gated
  /\ gate.request.method = "GET"
  /\ gate.request.pathname = P_account
  /\ gate.request.cookie = GateToken
  /\ gate.verify = "fault"
  /\ VerifyCalled
  /\ PassedThrough

\* the four headers the gate is to attach
RequiredSecurityHeaders ==
  {"X-Content-Type-Options", "X-Frame-Options", "Referrer-Policy", "Permissions-Policy"}

\* C17: every pass-through response carries X-Content-Type-Options,
\* X-Frame-Options, Referrer-Policy and Permissions-Policy.
C17_SecurityHeadersOnPassThrough ==
  (Gated /\ gate.res.kind = "next") =>
    RequiredSecurityHeaders \subseteq {h[1] : h \in gate.res.headers.security}

----------------------------------------------------------------------------
\* The client session hook: useAuthStandalone (lib/useAuth.tsx)

\* const cacheTimeout = 5 * 60 * 1000 milliseconds
cacheTimeout == 5 * 60

\* const CACHE_DURATION = 30 * 24 * 60 * 60 * 1000 milliseconds
CACHE_DURATION == 30 * 24 * 60 * 60

\* the browser clock advances by a second, by just under the re-check window
\* or by just over the life of a cache entry
ClientTickSteps == {1, cacheTimeout - 1, CACHE_DURATION + 1}

\* the user object the auth endpoints answer with
MeUser == userWithoutPassword(InitialUsers, "id_u1")

\* how a fetch of the hook ends: an answer that reports success, an answer
\* that does not, or a throw of fetch() or response.json()
FetchOutcomes == {"ok", "rejected", "throws"}

\* getAuthCache(): the parsed entry under AUTH_CACHE_KEY, null without one
getAuthCache(storage) == storage.auth_user_cache

\* setAuthCache(userData) at time t
setAuthCache(storage, userData, t) ==
  IF userData # NullObj
    THEN [storage EXCEPT !.auth_user_cache = [data |-> userData, timestamp |-> t]]
    ELSE [storage EXCEPT !.auth_user_cache = NullObj]

\* the throttle left out
recentlyChecked_never(force, checked, currentTime) == FALSE

\* !force && lastChecked && currentTime - lastChecked < cacheTimeout
recentlyChecked(force, checked, currentTime) ==
  ~force /\ checked # 0 /\ currentTime - checked < cacheTimeout

\* a throw handled like an answer that reports failure
authFailed_orThrows(outcome) == outcome # "ok"

\* the else branch of `response.ok && data.success`; a throw skips both
authFailed(outcome) == outcome = "rejected"

\* the try/catch of checkAuth: the user state and the storage it leaves
checkAuthTry(outcome, currentTime, u, storage) ==
  IF outcome = "ok"
    THEN [user |-> MeUser,
          storage |-> [storage EXCEPT !.auth_user = [data |-> MeUser, timestamp |-> currentTime]]]
    ELSE IF authFailed(outcome)
      THEN [user |-> NullObj, storage |-> [storage EXCEPT !.auth_user = NullObj]]
      ELSE [user |-> u, storage |-> storage]

CheckRequests == {r \in inflight : r.op = "checkAuth"}

\* new Date().getTime() advances
ClientTick(d) ==
  /\ cticks < MaxClientTicks
  /\ clock' = clock + d
  /\ cticks' = cticks + 1
  /\ UNCHANGED <<serverVars, redirectRefs, currentUser, isLoading, lastChecked, localStorage, inflight, calls, route>>

\* checkAuth(force) up to its await: it returns at once when a check was
\* made recently, and sends GET /api/auth/me otherwise
CheckAuth(force) ==
  /\ Len(calls) < MaxCalls
  /\ LET currentTime == clock
         skip == recentlyChecked(force, lastChecked, currentTime)
         entry == [op |-> "checkAuth", force |-> force, at |-> currentTime,
                   outcome |-> IF skip THEN "skipped" ELSE "pending",
                   overlap |-> CheckRequests # {}]
     IN
     /\ calls' = Append(calls, entry)
     /\ IF skip
          THEN UNCHANGED <<isLoading, inflight>>
          ELSE /\ isLoading' = IF lastChecked = 0 THEN TRUE ELSE isLoading
               /\ inflight' = inflight \cup
                    {[op |-> "checkAuth", id |-> Len(calls) + 1, currentTime |-> currentTime]}
  /\ UNCHANGED <<serverVars, redirectRefs, clock, cticks, currentUser, lastChecked, localStorage, route>>

\* checkAuth from the end of its fetch: try, catch and finally
CheckAuthSettle(req, outcome) ==
  /\ req \in CheckRequests
  /\ LET after == checkAuthTry(outcome, req.currentTime, currentUser, localStorage)
     IN
     /\ currentUser' = after.user
     /\ localStorage' =
          [after.storage EXCEPT !.auth_last_checked = [value |-> req.currentTime]]
  /\ isLoading' = FALSE
  /\ lastChecked' = req.currentTime
  /\ inflight' = inflight \ {req}
  /\ calls' = [calls EXCEPT ![req.id].outcome = outcome]
  /\ UNCHANGED <<serverVars, redirectRefs, clock, cticks, route>>

\* login(username, password) up to its await
ClientLogin ==
  /\ Len(calls) < MaxCalls
  /\ isLoading' = TRUE
  /\ inflight' = inflight \cup {[op |-> "login", id |-> Len(calls) + 1, currentTime |-> 0]}
  /\ calls' = Append(calls, [op |-> "login", force |-> FALSE, at |-> clock,
                             outcome |-> "pending", overlap |-> CheckRequests # {}])
  /\ UNCHANGED <<serverVars, redirectRefs, clock, cticks, currentUser, lastChecked, localStorage, route>>

\* login from the end of its fetch
ClientLoginSettle(req, outcome) ==
  /\ req \in inflight
  /\ req.op = "login"
  /\ IF outcome = "ok"
       THEN /\ localStorage' = setAuthCache(localStorage, MeUser, clock)
            /\ currentUser' = MeUser
       ELSE UNCHANGED <<localStorage, currentUser>>
  /\ isLoading' = FALSE
  /\ inflight' = inflight \ {req}
  /\ calls' = [calls EXCEPT ![req.id].outcome = outcome]
  /\ UNCHANGED <<serverVars, redirectRefs, clock, cticks, lastChecked, route>>

\* logout() up to its await: the local state is cleared, then POST
\* /api/auth/logout is sent
ClientLogout ==
  /\ Len(calls) < MaxCalls
  /\ localStorage' = setAuthCache(localStorage, NullObj, clock)
  /\ currentUser' = NullObj
  /\ lastChecked' = 0
  /\ inflight' = inflight \cup {[op |-> "logout", id |-> Len(calls) + 1, currentTime |-> 0]}
  /\ calls' = Append(calls, [op |-> "logout", force |-> FALSE, at |-> clock,
                             outcome |-> "pending", overlap |-> CheckRequests # {}])
  /\ UNCHANGED <<serverVars, redirectRefs, clock, cticks, isLoading, route>>

\* the push skipped when the fetch throws
logoutRoute_unlessThrown(outcome, current) ==
  IF outcome = "throws" THEN current ELSE P_login

\* router.push('/login'): after the answer, whatever its status, and in the
\* catch block
logoutRoute(outcome, current) == P_login

\* logout from the end of its fetch
ClientLogoutSettle(req, outcome) ==
  /\ req \in inflight
  /\ req.op = "logout"
  /\ route' = logoutRoute(outcome, route)
  /\ inflight' = inflight \ {req}
  /\ calls' = [calls EXCEPT ![req.id].outcome = outcome]
  /\ UNCHANGED <<serverVars, redirectRefs, clock, cticks, currentUser, isLoading, lastChecked, localStorage>>

NextClient ==
  \/ \E d \in ClientTickSteps : ClientTick(d)
  \/ \E force \in BOOLEAN : CheckAuth(force)
  \/ \E req \in inflight, outcome \in FetchOutcomes : CheckAuthSettle(req, outcome)
  \/ ClientLogin
  \/ \E req \in inflight, outcome \in FetchOutcomes : ClientLoginSettle(req, outcome)
  \/ ClientLogout
  \/ \E req \in inflight, outcome \in FetchOutcomes : ClientLogoutSettle(req, outcome)

\* the browser side on its own: the server's process.env plays no part in it
InitClient == Init /\ env = [NODE_ENV |-> "production", DEBUG_AUTH |-> Null]

SpecClient == InitClient /\ [][NextClient]_vars

----------------------------------------------------------------------------
\* Properties of the client session hook

\* two calls of checkAuth(false) less than the re-check window apart, with
\* no call between them but logins
ThrottledPair(i, j) ==
  /\ i \in 1 .. Len(calls)
  /\ j \in i + 1 .. Len(calls)
  /\ calls[i].op = "checkAuth" /\ ~calls[i].force
  /\ calls[j].op = "checkAuth" /\ ~calls[j].force
  /\ calls[j].at - calls[i].at < cacheTimeout
  /\ \A k \in i + 1 .. j - 1 : calls[k].op = "login"

Fetched(entry) == entry.outcome # "skipped"

CheckAuthEnds(outcome) == \E req \in inflight : CheckAuthSettle(req, outcome)

\* C19: when the request of checkAuth fails at the network level (fetch or
\* the parsing of the body throws), the in-memory user and the stored user
\* entries are left as they were; only isLoading and the last-checked
\* timestamp change.
C19_NetworkErrorKeepsState ==
  [][CheckAuthEnds("throws") =>
       /\ currentUser' = currentUser
       /\ localStorage'.auth_user = localStorage.auth_user
       /\ localStorage'.auth_user_cache = localStorage.auth_user_cache
       /\ route' = route
       /\ lastChecked' # 0
       /\ ~isLoading']_vars

\* a check has thrown and the user, the entry of an earlier check and the
\* entry of login are all still there
C19_Witness ==
  /\ Len(calls) = 3
  /\ calls[3].op = "checkAuth"
  /\ calls[3].outcome = "throws"
  /\ lastChecked = calls[3].at
  /\ currentUser = MeUser
  /\ localStorage.auth_user # NullObj
  /\ getAuthCache(localStorage) # NullObj

\* C20: on an explicit failure answer checkAuth clears the in-memory user
\* and the cache entry, so that getAuthCache() then returns null whatever
\* login or checkAuth stored before; on a success answer it updates the entry
\* that getAuthCache() reads.
C20_CheckAuthMaintainsCacheEntry ==
  [][/\ CheckAuthEnds("rejected") =>
          (currentUser' = NullObj /\ getAuthCache(localStorage') = NullObj)
     /\ CheckAuthEnds("ok") =>
          (currentUser' = MeUser /\ getAuthCache(localStorage') # NullObj)]_vars

\* a step in which a logout request ends the given way
LogoutEnds(outcome) == \E req \in inflight : ClientLogoutSettle(req, outcome)

\* C21: logout() clears the cache entry and the in-memory user before its
\* request to /api/auth/logout is sent, and navigates to /login when the
\* request ends, whether with a success answer, an error answer or a throw.
C21_LogoutClearsThenNavigates ==
  [][/\ ClientLogout =>
          /\ currentUser' = NullObj
          /\ getAuthCache(localStorage') = NullObj
          /\ \E req \in inflight' \ inflight : req.op = "logout"
     /\ \A outcome \in FetchOutcomes : LogoutEnds(outcome) => route' = P_login]_vars

\* a logout made with a user and a cache entry, answered with an error: the
\* state is cleared and the router shows /login
C21_Witness ==
  /\ Len(calls) = 2
  /\ calls[1].op = "login" /\ calls[1].outcome = "ok"
  /\ calls[2].op = "logout" /\ calls[2].outcome = "rejected"
  /\ currentUser = NullObj
  /\ getAuthCache(localStorage) = NullObj
  /\ route = P_login

\* C22: a cache entry whose timestamp is more than CACHE_DURATION (30 days)
\* before the current time is treated as absent: getAuthCache() returns
\* null for it.
C22_OldCacheEntryAbsent ==
  (/\ localStorage.auth_user_cache # NullObj
   /\ clock - localStorage.auth_user_cache.timestamp > CACHE_DURATION) =>
    getAuthCache(localStorage) = NullObj

----------------------------------------------------------------------------
\* POST /api/auth/login on its own (upload-verification/route.ts:236-314)

\* the names and passwords a client sends: those of TEST_USER, others, none
LoginUsernames == {TEST_USER.username, "ghost", ""}

LoginPasswords == {TEST_USER.password, "wrong", ""}

\* the store answers, or getMongoDb / findOne throws
LoginFaults == {"none", "db"}

\* one POST /api/auth/login
LoginCall(body, fault) ==
  /\ last = NoCall
  /\ last' = [kind |-> "login", body |-> body, fault |-> fault,
              res |-> login(body, users, now, fault)]
  /\ UNCHANGED <<now, ticks, users, env, testPc, authHeader, testLog, gate, clientVars, storeVars>>

NextLogin ==
  \/ \E d \in TickSteps : Tick(d)
  \/ RemoveTestUser
  \/ Deliver
  \/ \E username \in LoginUsernames, password \in LoginPasswords, fault \in LoginFaults :
       LoginCall([username |-> username, password |-> password], fault)

SpecLogin == Init /\ [][NextLogin]_vars

LoginAnswered == last # NoCall

\* the store holds a user of that name whose password hash is that of the
\* password sent
CredentialsMatch ==
  \E id \in DOMAIN users :
    /\ users[id].username = last.body.username
    /\ users[id].password = hashPassword(last.body.password)

LoginSucceeded ==
  /\ last.res.status = 200
  /\ last.res.success
  /\ last.res.setCookie # NoTok

LoginRefused == last.res.status = 401 /\ last.res.setCookie = NoTok

BothFieldsSent == last.body.username # "" /\ last.body.password # ""

\* C23: POST /api/auth/login answers success and sets the 'token' cookie if
\* and only if the username exists and the password matches; a wrong password
\* or an unknown username is answered 401 without a token cookie.
C23_LoginIffCredentialsMatch ==
  (LoginAnswered /\ BothFieldsSent) =>
    /\ LoginSucceeded <=> CredentialsMatch
    /\ ~CredentialsMatch => LoginRefused

\* C23 as the route has it: the claim for the requests during which the user
\* store answers; no request at all gets success or a token cookie without
\* matching credentials.
C23_LoginIffCredentialsMatchWhenStoreAnswers ==
  LoginAnswered =>
    /\ (BothFieldsSent /\ last.fault = "none") =>
         /\ LoginSucceeded <=> CredentialsMatch
         /\ ~CredentialsMatch => LoginRefused
    /\ (last.res.success \/ last.res.setCookie # NoTok) =>
         (BothFieldsSent /\ CredentialsMatch /\ LoginSucceeded)

\* the test user logs in and gets a token of their own
C23_Witness ==
  /\ LoginAnswered
  /\ last.body = TEST_USER
  /\ last.fault = "none"
  /\ CredentialsMatch
  /\ LoginSucceeded
  /\ last.res.setCookie = generateToken("id_u1", now)

----------------------------------------------------------------------------
\* The gate together with the endpoint it calls (test-auth-flow.js:348-376,
\* GET /api/auth/verify, withAuth, authenticateRequest)

\* the request the gate sends to /api/auth/verify: the token goes into the
\* Authorization header; the fetch of the edge runtime has no cookie jar, so
\* no Cookie header goes with it
verifyRequest(token) == [cookie |-> NoTok, bearer |-> token, query |-> NoTok]

\* verifyResponse.ok
isOk(status) == status >= 200 /\ status <= 299

\* what the gate's fetch ends with: a throw when the endpoint cannot be
\* reached, else the answer of withAuth(handler) of the verify route
verifyOutcome(token, store, t, fault, e, reachable) ==
  IF ~reachable
    THEN "fault"
    ELSE
      LET out == withAuth("verify", DefaultRoles, verifyRequest(token), store, t, fault, e) IN
      IF isOk(out.response.status) THEN "ok" ELSE "rejected"

\* page requests with the session cookie a browser holds
PageRequests(t) ==
  [method : {"GET"}, pathname : {P_root, P_account, P_deposit}, origin : {O_none},
   bearer : {NoTok}, cookie : CookieChoices(t), query : {NoTok}]

\* one request through the gate, the verification done by the server
GateVerifiedRequest(request, fault, reachable) ==
  /\ gate = NoGate
  /\ LET verify == verifyOutcome(getTokenFromRequest(request), users, now, fault, env, reachable) IN
     gate' = [kind |-> "request", request |-> request, verify |-> verify, hops |-> 0,
              fault |-> fault, reachable |-> reachable,
              res |-> middleware(request, env, verify)]
  /\ UNCHANGED <<now, ticks, users, env, last, testPc, authHeader, testLog, clientVars, storeVars>>

NextGateVerified ==
  \/ \E d \in TickSteps : Tick(d)
  \/ RemoveTestUser
  \/ GateDeliver
  \/ \E request \in PageRequests(now), fault \in {"none", "db"}, reachable \in BOOLEAN :
       GateVerifiedRequest(request, fault, reachable)

SpecGateVerified == Init /\ [][NextGateVerified]_vars

\* the 'token' cookie holds a well-signed token, younger than the token
\* lifetime, of a user in the store
FreshValidGateCookie ==
  LET tokenData == parseToken(gate.request.cookie) IN
  /\ tokenData # NullObj
  /\ now - tokenData.timestamp < TOKEN_MAX_AGE_MS
  /\ tokenData.userId \in DOMAIN users

\* C24: a request to a protected page whose 'token' cookie holds a valid,
\* unexpired token of an existing user is passed through by the gate when the
\* verification endpoint is reachable: the gate's call to /api/auth/verify
\* with that token is answered OK.
C24_ValidCookiePassesGate ==
  (/\ Gated
   /\ ProtectedPage
   /\ FreshValidGateCookie
   /\ gate.reachable
   /\ gate.fault = "none") =>
    (gate.verify = "ok" /\ PassedThrough)

\* C26: the gate cannot loop: every redirect it issues targets /login, a
\* request to /login is passed through for every token and origin state, its
\* own call to /api/auth/verify is passed through without a further
\* verification call, and following its redirects reaches a pass-through
\* after at most one redirect.
C26_GateCannotLoop ==
  Gated =>
    /\ gate.res.kind = "redirect" => gate.res.location.pathname = P_login
    /\ (gate.request.pathname = P_login /\ gate.request.method # "OPTIONS") =>
         (PassedThrough /\ ~VerifyCalled)
    /\ (gate.request.pathname = P_api_auth_verify /\ gate.request.method # "OPTIONS") =>
         (PassedThrough /\ ~VerifyCalled)
    /\ gate.hops <= 1
    /\ gate.hops = 1 => PassedThrough

\* the redirect of a rejected token was followed to /login, with the token
\* still in the cookie, and passed through
C26_Witness ==
  /\ Gated
  /\ gate.hops = 1
  /\ gate.request.pathname = P_login
  /\ gate.request.cookie = GateToken
  /\ gate.verify = "rejected"
  /\ PassedThrough

----------------------------------------------------------------------------
\* The hook inside its pages: the redirect handler of useAuthStandalone and
\* the effects of the pages that use the hook

\* "/auth/login"
P_auth_login == <<"/", "a", "u", "t", "h", "/", "l", "o", "g", "i", "n">>

\* "/auth/register"
P_auth_register == <<"/", "a", "u", "t", "h", "/", "r", "e", "g", "i", "s", "t", "e", "r">>

\* publicPaths of requiresAuth
clientPublicPaths ==
  { P_root, P_login, P_auth_login, P_register, P_auth_register,
    \* /static
    <<"/", "s", "t", "a", "t", "i", "c">>,
    \* /public
    <<"/", "p", "u", "b", "l", "i", "c">>,
    \* /api
    <<"/", "a", "p", "i">>,
    P_favicon, P_next, P_images,
    \* /assets
    <<"/", "a", "s", "s", "e", "t", "s">> }

\* requiresAuth(path): publicPaths.some(p => path === p || path.startsWith(p))
requiresAuth(path) ==
  /\ path # <<>>
  /\ ~\E p \in clientPublicPaths : path = p \/ startsWith(path, p)

\* isAuthPath of handleAuthRedirect
isAuthPath(path) ==
  \/ path = P_login \/ path = P_auth_login
  \/ path = P_register \/ path = P_auth_register
  \/ startsWith(path, P_auth_slash)

\* const redirectCooldown = 1000 milliseconds
redirectCooldown == 1

\* the pages a visitor opens first
EntryPages == {P_account, P_deposit}

\* handleAuthRedirect(pathname), run by the timer of the auto redirect effect
HandleAuthRedirect ==
  /\ LET path == route IN
     IF \/ path = <<>>
        \/ isLoading
        \/ path = lastPathRef
        \/ clock - lastRedirectTimeRef < redirectCooldown
       THEN UNCHANGED <<route, redirectRefs>>
       ELSE
         /\ lastPathRef' = path
         /\ IF currentUser # NullObj /\ isAuthPath(path)
              THEN route' = P_root /\ lastRedirectTimeRef' = clock
              ELSE IF requiresAuth(path) /\ currentUser = NullObj
                THEN route' = P_login /\ lastRedirectTimeRef' = clock
                ELSE UNCHANGED <<route, lastRedirectTimeRef>>
  /\ UNCHANGED <<serverVars, clock, cticks, currentUser, isLoading, lastChecked, localStorage,
                 inflight, calls>>

\* AccountPage, effect on [user, refreshUser]: refreshUser() while there is no
\* user (account/page.tsx:157-170)
AccountPageRefresh ==
  /\ route = P_account
  /\ currentUser = NullObj
  /\ CheckAuth(TRUE)

\* NewHeader.fetchData: isAuthenticated() ? refreshUser() : Promise.resolve()
HeaderFetchData ==
  /\ currentUser # NullObj
  /\ CheckAuth(TRUE)

\* DepositPage, effect on [user, isLoading]: router.push('/login') once the
\* hook is not loading and has no user (deposit/page.tsx:38-43)
DepositPageEffect ==
  /\ route = P_deposit
  /\ ~isLoading
  /\ currentUser = NullObj
  /\ route' = P_login
  /\ UNCHANGED <<serverVars, redirectRefs, clock, cticks, currentUser, isLoading, lastChecked,
                 localStorage, inflight, calls>>

NextPages ==
  \/ \E d \in ClientTickSteps : ClientTick(d)
  \/ HandleAuthRedirect
  \/ AccountPageRefresh
  \/ HeaderFetchData
  \/ DepositPageEffect
  \/ ClientLogin
  \/ \E req \in inflight, outcome \in FetchOutcomes : CheckAuthSettle(req, outcome)
  \/ \E req \in inflight, outcome \in FetchOutcomes : ClientLoginSettle(req, outcome)

InitPages ==
  /\ InitServer
  /\ env = [NODE_ENV |-> "production", DEBUG_AUTH |-> Null]
  /\ InitHook
  /\ route \in EntryPages

SpecPages == InitPages /\ [][NextPages]_vars

\* C25: when handleAuthRedirect(path) runs with isLoading false, no user, no
\* redirect in the last second and path a protected page such as /account or
\* /deposit, it navigates to /login.
C25_RedirectsVisitorToLogin ==
  [][(/\ HandleAuthRedirect
      /\ ~isLoading
      /\ currentUser = NullObj
      /\ clock - lastRedirectTimeRef >= redirectCooldown
      /\ route # lastPathRef
      /\ route \in {P_account, P_deposit}) => route' = P_login]_vars

\* React runs every effect that is due and every pending fetch settles;
\* whether and when a visitor submits the login form is up to the visitor
FairPages ==
  /\ WF_vars(HandleAuthRedirect)
  /\ WF_vars(AccountPageRefresh)
  /\ WF_vars(HeaderFetchData)
  /\ WF_vars(DepositPageEffect)
  /\ WF_vars(\E req \in inflight, outcome \in FetchOutcomes : CheckAuthSettle(req, outcome))
  /\ WF_vars(\E req \in inflight, outcome \in FetchOutcomes : ClientLoginSettle(req, outcome))

SpecPagesFair == InitPages /\ [][NextPages]_vars /\ FairPages

\* C27: after the AuthProvider mounts the initial authentication check
\* completes: isLoading, true at first, becomes false in every execution.
C27_LoadingEventuallyEnds == <>(~isLoading)

\* the request was sent by a checkAuth call made before a later logout call
SentBeforeLogout(req) ==
  \E i \in req.id + 1 .. Len(calls) : calls[i].op = "logout"

\* C28: once logout() has cleared the client state, the in-memory user stays
\* null and the cache stays absent until the next successful login() or a
\* checkAuth() started after the logout: the answer to a checkAuth request
\* that was in flight when logout() ran does not restore the user.
C28_StaleCheckDoesNotRestoreUser ==
  [][\A req \in CheckRequests, outcome \in FetchOutcomes :
       (/\ CheckAuthSettle(req, outcome)
        /\ SentBeforeLogout(req)
        /\ currentUser = NullObj
        /\ getAuthCache(localStorage) = NullObj) =>
         (currentUser' = NullObj /\ getAuthCache(localStorage') = NullObj)]_vars

----------------------------------------------------------------------------
\* PUT on the admin withdrawal route (app/api/settings/route.ts, 200-316).
\* The handler awaits every database call, so another request may run
\* between two of them: one action per stretch between awaits that touches
\* the withdrawal or the balance.

\* lines 203-234: the bearer token, the caller's document, the body and the
\* admin test; none of them reads the withdrawal
PutStart(p, hasToken, caller, status) ==
  /\ puts[p].pc = "idle"
  /\ LET answer(code) == [pc |-> "done", status |-> status, caller |-> caller,
                          response |-> code]
     IN puts' = [puts EXCEPT ![p] =
          IF ~hasToken THEN answer(401)
          ELSE IF caller \notin DOMAIN users THEN answer(404)
          ELSE IF status \notin {Pending, Approved, Rejected} THEN answer(400)
          ELSE IF users[caller].role # "admin" THEN answer(403)
          ELSE [pc |-> "find", status |-> status, caller |-> caller,
                response |-> 0]]
  /\ UNCHANGED <<now, ticks, users, env, last, testPc, authHeader, testLog, gate,
                 withdrawal, ownerBalance, adjusted, regs, clientVars>>

\* lines 237-246: findOne on the withdrawal and the test of the status read
PutFindWithdrawal(p) ==
  /\ puts[p].pc = "find"
  /\ puts' = [puts EXCEPT ![p] =
       IF withdrawal.status = Approved \/ withdrawal.status = Rejected
         THEN [@ EXCEPT !.pc = "done", !.response = 400]
         ELSE IF @.status = Approved
                THEN [@ EXCEPT !.pc = "user"]
                ELSE [@ EXCEPT !.pc = "update"]]
  /\ UNCHANGED <<now, ticks, users, env, last, testPc, authHeader, testLog, gate,
                 withdrawal, ownerBalance, adjusted, regs, clientVars>>

\* lines 249-262: when approving, findOne on the owner and the balance test
PutFindUser(p) ==
  /\ puts[p].pc = "user"
  /\ puts' = [puts EXCEPT ![p] =
       IF ownerBalance < withdrawal.amount
         THEN [@ EXCEPT !.pc = "done", !.response = 400]
         ELSE [@ EXCEPT !.pc = "update"]]
  /\ UNCHANGED <<now, ticks, users, env, last, testPc, authHeader, testLog, gate,
                 withdrawal, ownerBalance, adjusted, regs, clientVars>>

\* lines 265-276: updateOne({_id}, {$set: {status, ...}}); the filter names
\* the id only
PutUpdateStatus(p) ==
  /\ puts[p].pc = "update"
  /\ withdrawal' = [withdrawal EXCEPT !.status = puts[p].status]
  /\ puts' = [puts EXCEPT ![p].pc = "adjust"]
  /\ UNCHANGED <<now, ticks, users, env, last, testPc, authHeader, testLog, gate,
                 ownerBalance, adjusted, regs, clientVars>>

\* lines 279-310: $inc on the owner's balance by the amount read at line
\* 238, the notification and the answer
PutFinish(p) ==
  /\ puts[p].pc = "adjust"
  /\ ownerBalance' =
       IF puts[p].status = Rejected THEN ownerBalance + withdrawal.amount
       ELSE IF puts[p].status = Approved THEN ownerBalance - withdrawal.amount
       ELSE ownerBalance
  /\ adjusted' = IF puts[p].status \in {Rejected, Approved}
                   THEN adjusted + 1 ELSE adjusted
  /\ puts' = [puts EXCEPT ![p] = [@ EXCEPT !.pc = "done", !.response = 200]]
  /\ UNCHANGED <<now, ticks, users, env, last, testPc, authHeader, testLog, gate,
                 withdrawal, regs, clientVars>>

NextWithdrawals ==
  \/ \E p \in PutIds, hasToken \in BOOLEAN, caller \in UserIds, status \in PutStatuses :
       PutStart(p, hasToken, caller, status)
  \/ \E p \in PutIds : PutFindWithdrawal(p)
  \/ \E p \in PutIds : PutFindUser(p)
  \/ \E p \in PutIds : PutUpdateStatus(p)
  \/ \E p \in PutIds : PutFinish(p)

SpecWithdrawals == Init /\ [][NextWithdrawals]_vars

\* C29: under every interleaving of the admin PUT requests for one
\* withdrawal, a status of 'Da duyet' or 'Tu choi' never changes again, and
\* the owner's balance is adjusted at most once for the withdrawal.
C29_ProcessingFinalAndOnce ==
  [][ /\ (withdrawal.status \in {Approved, Rejected}
            => withdrawal'.status = withdrawal.status)
      /\ adjusted' <= 1 ]_vars

----------------------------------------------------------------------------
\* POST /api/register (app/api/register/route.ts).  No index of the users
\* collection is declared anywhere in the sources, so insertOne accepts any
\* document.

\* the usernames and passwords a body may carry; "" is a missing field
RegNames == {"", "ab", "Alice ", "alice", "testuser"}

RegPasswords == {"", "short", "secret1"}

\* String.prototype.length on the strings above
length(s) ==
  CASE s = "" -> 0
    [] s = "ab" -> 2
    [] s = "Alice " -> 6
    [] s = "Alice" -> 5
    [] s = "alice" -> 5
    [] s = "testuser" -> 8
    [] s = "short" -> 5
    [] s = "secret1" -> 7

\* String.prototype.trim on the strings above: "Alice " ends with a blank
trim(s) == IF s = "Alice " THEN "Alice" ELSE s

\* String.prototype.toLowerCase on the strings above
toLowerCase(s) == IF s = "Alice" THEN "alice" ELSE IF s = "Alice " THEN "alice " ELSE s

\* result.insertedId of the insertOne of request r
RegUserId(r) == IF r = "r1" THEN "id_r1" ELSE "id_r2"

\* lines 7-31: the body and the three validations
RegisterStart(r, username, password) ==
  /\ regs[r].pc = "idle"
  /\ LET answer(code) == [pc |-> "done", username |-> username, password |-> password,
                          response |-> code, setCookie |-> NoTok]
     IN regs' = [regs EXCEPT ![r] =
          IF username = "" \/ password = "" THEN answer(400)
          ELSE IF length(username) < 3 THEN answer(400)
          ELSE IF length(password) < 6 THEN answer(400)
          ELSE [pc |-> "find", username |-> username, password |-> password,
                response |-> 0, setCookie |-> NoTok]]
  /\ UNCHANGED <<now, ticks, users, env, last, testPc, authHeader, testLog, gate,
                 withdrawal, ownerBalance, adjusted, puts, clientVars>>

\* lines 33-48: getMongoDb and findOne({username: username.trim().toLowerCase()});
\* fault "db": the store throws and the catch answers 500
RegisterFind(r, fault) ==
  /\ regs[r].pc = "find"
  /\ regs' = [regs EXCEPT ![r] =
       IF fault = "db"
         THEN [@ EXCEPT !.pc = "done", !.response = 500]
         ELSE IF findByUsername(users, toLowerCase(trim(@.username))) # NullObj
                THEN [@ EXCEPT !.pc = "done", !.response = 400]
                ELSE [@ EXCEPT !.pc = "insert"]]
  /\ UNCHANGED <<now, ticks, users, env, last, testPc, authHeader, testLog, gate,
                 withdrawal, ownerBalance, adjusted, puts, clientVars>>

\* lines 51-114: hashPassword, insertOne(newUser), the token cookie and the
\* answer
RegisterInsert(r) ==
  /\ regs[r].pc = "insert"
  /\ LET newUser == [username |-> toLowerCase(trim(regs[r].username)),
                     password |-> hashPassword(regs[r].password),
                     role |-> "user"]
     IN users' = [id \in DOMAIN users \cup {RegUserId(r)} |->
                    IF id = RegUserId(r) THEN newUser ELSE users[id]]
  /\ regs' = [regs EXCEPT ![r] =
       [@ EXCEPT !.pc = "done", !.response = 200,
                 !.setCookie = generateToken(RegUserId(r), now)]]
  /\ UNCHANGED <<now, ticks, env, last, testPc, authHeader, testLog, gate,
                 withdrawal, ownerBalance, adjusted, puts, clientVars>>

NextRegister ==
  \/ \E r \in RegIds, username \in RegNames, password \in RegPasswords :
       RegisterStart(r, username, password)
  \/ \E r \in RegIds, fault \in LoginFaults : RegisterFind(r, fault)
  \/ \E r \in RegIds : RegisterInsert(r)

SpecRegister == Init /\ [][NextRegister]_vars

\* C30: after any interleaving of POST register requests no two users
\* share a username, and a request answered 400 has inserted nothing.
C30_UsernamesStayUnique ==
  /\ \A a, b \in DOMAIN users :
       a # b => users[a].username # users[b].username
  /\ \A r \in RegIds :
       regs[r].response = 400 => RegUserId(r) \notin DOMAIN users

====
